---- MODULE Spec2Model ----
(***************************************************************************)
(* A model of school/utilities.py: the Ansi text helpers, print_table,    *)
(* the Strict dataclass loader and pick_one.                               *)
(*                                                                         *)
(* A Python str is a sequence of code points (integers), so that the       *)
(* character classes of the regular expression of Ansi.escape are the      *)
(* same ranges as in the source.                                           *)
(***************************************************************************)
EXTENDS Integers, Sequences, FiniteSets, TLC

VARIABLES
    atext, alength, afill, aop, aresult,      \* Ansi: the arguments, the method called, its result
    table, ti, tout, tpc,                     \* print_table: its argument, the loop index, stdout, position
    lcls, ldoc, lpc, lkwargs, loutcome, lelementwise,
        \* Strict._from_file: the class, the parsed document, position, the
        \* keyword arguments handed to the constructor of the class, outcome;
        \* whether the type checker looks at the elements of a list
    choices, pinput, ppos, ppc, pprinted, pret, pexit
        \* pick_one: l, the lines of stdin, how many were read, position,
        \* stdout, the value returned, the exit code

avars == <<atext, alength, afill, aop, aresult>>
tvars == <<table, ti, tout, tpc>>
lvars == <<lcls, ldoc, lpc, lkwargs, loutcome, lelementwise>>
pvars == <<choices, pinput, ppos, ppc, pprinted, pret, pexit>>
vars == <<avars, tvars, lvars, pvars>>

(***************************************************************************)
(* Bounds of the inputs.                                                   *)
(***************************************************************************)
MaxLen == 4          \* longest text given to the Ansi methods
MaxWidth == 5        \* largest length argument of ljust / rjust / center
MaxRows == 3         \* most rows of a table given to print_table
MaxChoices == 3      \* longest list given to pick_one
MaxInputs == 2       \* most lines on stdin before its end
MaxList == 2         \* longest sequence in a document

(***************************************************************************)
(* Characters.                                                             *)
(***************************************************************************)
ESC == 27
LBRACKET == 91
NEWLINE == 10
SPACE == 32
RULE == 9472             \* U+2500, the fill of a caption line
BAR == 9474              \* U+2502
CORNER_TL == 9581        \* U+256D
CORNER_TR == 9582        \* U+256E
CORNER_BL == 9584        \* U+2570
CORNER_BR == 9583        \* U+256F
TEE_L == 9500            \* U+251C
TEE_R == 9508            \* U+2524
LBRACE == 123
RBRACE == 125

RECURSIVE Rep(_, _)
\* Python's  c * n  for a one-character string c
Rep(c, n) == IF n <= 0 THEN <<>> ELSE <<c>> \o Rep(c, n - 1)

(***************************************************************************)
(* Ansi.escape: re.compile(r"\x1B(?:[@-Z\\-_]|\[[0-?]*[ -/]*[@-~])")       *)
(*                  .sub("", text)                                         *)
(***************************************************************************)
IsFe(c) == (c >= 64 /\ c <= 90) \/ (c >= 92 /\ c <= 95)      \* [@-Z\\-_]
IsParam(c) == c >= 48 /\ c <= 63                              \* [0-?]
IsInter(c) == c >= 32 /\ c <= 47                              \* [ -/]
IsFinal(c) == c >= 64 /\ c <= 126                             \* [@-~]

RECURSIVE SkipParams(_, _)
\* the index after the longest run of [0-?] that starts at j
SkipParams(s, j) ==
    IF j <= Len(s) /\ IsParam(s[j]) THEN SkipParams(s, j + 1) ELSE j

RECURSIVE SkipInters(_, _)
\* the index after the longest run of [ -/] that starts at j
SkipInters(s, j) ==
    IF j <= Len(s) /\ IsInter(s[j]) THEN SkipInters(s, j + 1) ELSE j

\* The length of the match of the pattern at index i of s, 0 when there is none.
\* The three classes of the second alternative are disjoint, so the greedy
\* match is the only one.
MatchLen(s, i) ==
    IF i + 1 > Len(s) \/ s[i] # ESC THEN 0
    ELSE IF IsFe(s[i + 1]) THEN 2
    ELSE IF s[i + 1] # LBRACKET THEN 0
    ELSE LET k == SkipInters(s, SkipParams(s, i + 2))
         IN  IF k <= Len(s) /\ IsFinal(s[k]) THEN k - i + 1 ELSE 0

RECURSIVE Sub(_, _)
\* pattern.sub("", s) from index i on: every leftmost match is dropped, in one pass
Sub(s, i) ==
    IF i > Len(s) THEN <<>>
    ELSE IF MatchLen(s, i) > 0 THEN Sub(s, i + MatchLen(s, i))
    ELSE <<s[i]>> \o Sub(s, i + 1)

\* a slip: only the first match is dropped (sub with count = 1)
escape_first_only(text) ==
    LET at == {i \in 1..Len(text) : MatchLen(text, i) > 0}
    IN  IF at = {} THEN text
        ELSE LET i == CHOOSE j \in at : \A k \in at : j <= k
             IN  SubSeq(text, 1, i - 1) \o SubSeq(text, i + MatchLen(text, i), Len(text))

escape(text) == Sub(text, 1)

\* Ansi.len
len(text) == Len(escape(text))

(***************************************************************************)
(* The style helpers.                                                      *)
(***************************************************************************)
RESET == <<ESC, LBRACKET, 48, 109>>                           \* \u001b[0m

RECURSIVE Digits(_)
\* str(n) for n >= 0
Digits(n) == IF n < 10 THEN <<48 + n>> ELSE Digits(n \div 10) \o <<48 + (n % 10)>>

color(text, c) ==
    <<ESC, LBRACKET, 51, 56, 59, 53, 59>> \o Digits(c) \o <<109>> \o text \o RESET

gray(text) == <<ESC, LBRACKET, 51, 56, 59, 53, 59, 50, 52, 48, 109>> \o text \o RESET

bold(text) == <<ESC, LBRACKET, 49, 109>> \o text \o RESET

underline(text) == <<ESC, LBRACKET, 52, 109>> \o text \o RESET

italics(text) == <<ESC, LBRACKET, 51, 109>> \o text \o RESET

(***************************************************************************)
(* str.ljust, str.rjust and str.center of CPython, which Ansi.__align      *)
(* reaches through getattr.                                                *)
(***************************************************************************)
str_ljust(text, width, fill) == text \o Rep(fill, width - Len(text))

str_rjust(text, width, fill) == Rep(fill, width - Len(text)) \o text

\* a slip: the odd fill character always goes to the trailing side
str_center_trailing(text, width, fill) ==
    LET marg == width - Len(text)
    IN  IF marg <= 0 THEN text
        ELSE Rep(fill, marg \div 2) \o text \o Rep(fill, marg - marg \div 2)

\* left = marg / 2 + (marg & width & 1)
str_center(text, width, fill) ==
    LET marg == width - Len(text)
        left == (marg \div 2) + (IF marg % 2 = 1 /\ width % 2 = 1 THEN 1 ELSE 0)
    IN  IF marg <= 0 THEN text
        ELSE Rep(fill, left) \o text \o Rep(fill, marg - left)

\* a slip: the invisible characters of text are not added to the width
align_no_invisible(text, length, function, fill) ==
    CASE function = "ljust" -> str_ljust(text, length, fill)
      [] function = "rjust" -> str_rjust(text, length, fill)
      [] function = "center" -> str_center(text, length, fill)

\* Ansi.__align
__align(text, length, function, fill) ==
    LET width == length + (Len(text) - len(text))
    IN  CASE function = "ljust" -> str_ljust(text, width, fill)
          [] function = "rjust" -> str_rjust(text, width, fill)
          [] function = "center" -> str_center(text, width, fill)

ljust(text, length, fill) == __align(text, length, "ljust", fill)

rjust(text, length, fill) == __align(text, length, "rjust", fill)

center(text, length, fill) == __align(text, length, "center", fill)

(***************************************************************************)
(* The Ansi methods as operations: the arguments are drawn in the initial  *)
(* state and one method is applied to them.                                *)
(***************************************************************************)
Alphabet == {ESC, LBRACKET, 48, SPACE, 109, 65}      \* ESC [ 0 space m A

RECURSIVE SeqsUpTo(_, _)
\* the sequences over S of length at most n
SeqsUpTo(S, n) ==
    IF n = 0 THEN {<<>>}
    ELSE LET shorter == SeqsUpTo(S, n - 1)
         IN  shorter \cup {Append(s, c) : s \in shorter, c \in S}

Texts == SeqsUpTo(Alphabet, MaxLen)

Fills == {SPACE, RULE}

AIdle ==
    /\ atext = <<>>
    /\ alength = 0
    /\ afill = SPACE
    /\ aop = "idle"
    /\ aresult = <<>>

AInit ==
    /\ atext \in Texts
    /\ alength = 0
    /\ afill = SPACE
    /\ aop = "args"
    /\ aresult = <<>>

Escape ==
    /\ aop = "args"
    /\ aop' = "escape"
    /\ aresult' = escape(atext)
    /\ UNCHANGED <<atext, alength, afill>>

Bold ==
    /\ aop = "args"
    /\ aop' = "bold"
    /\ aresult' = bold(atext)
    /\ UNCHANGED <<atext, alength, afill>>

\* Ansi.ljust(text, length), the fill the default of str.ljust
Ljust ==
    /\ aop = "args"
    /\ aop' = "ljust"
    /\ \E n \in 0..MaxWidth :
        /\ alength' = n
        /\ aresult' = ljust(atext, n, SPACE)
    /\ UNCHANGED <<atext, afill>>

Rjust ==
    /\ aop = "args"
    /\ aop' = "rjust"
    /\ \E n \in 0..MaxWidth :
        /\ alength' = n
        /\ aresult' = rjust(atext, n, SPACE)
    /\ UNCHANGED <<atext, afill>>

\* Ansi.center(text, length, fill)
Center ==
    /\ aop = "args"
    /\ aop' = "center"
    /\ \E n \in 0..MaxWidth, f \in Fills :
        /\ alength' = n
        /\ afill' = f
        /\ aresult' = center(atext, n, f)
    /\ UNCHANGED atext

NextAnsi ==
    \/ Escape /\ UNCHANGED <<tvars, lvars, pvars>>
    \/ Bold /\ UNCHANGED <<tvars, lvars, pvars>>
    \/ Ljust /\ UNCHANGED <<tvars, lvars, pvars>>
    \/ Rjust /\ UNCHANGED <<tvars, lvars, pvars>>
    \/ Center /\ UNCHANGED <<tvars, lvars, pvars>>

TIdle == table = <<>> /\ ti = 0 /\ tout = <<>> /\ tpc = "idle"
LIdle ==
    /\ lcls = ""
    /\ ldoc = <<>>
    /\ lpc = "idle"
    /\ lkwargs = <<>>
    /\ loutcome = <<>>
    /\ lelementwise = FALSE
PIdle ==
    /\ choices = <<>>
    /\ pinput = <<>>
    /\ ppos = 0
    /\ ppc = "idle"
    /\ pprinted = <<>>
    /\ pret = ""
    /\ pexit = -1

InitAnsi == AInit /\ TIdle /\ LIdle /\ PIdle

SpecAnsi == InitAnsi /\ [][NextAnsi]_vars

(***************************************************************************)
(* Properties of the Ansi methods.                                         *)
(***************************************************************************)
Invisible(text) == Len(text) - len(text)

\* every ESC of text starts a sequence that the pattern recognizes
EveryEscStartsSequence(text) ==
    \A i \in 1..Len(text) : text[i] = ESC => MatchLen(text, i) > 0

NoSequenceIn(text) == \A i \in 1..Len(text) : MatchLen(text, i) = 0

\* C5 as stated: escape is idempotent on every string,
\* escape(escape(s)) = escape(s).
C5_EscapeIdempotent ==
    aop = "escape" => escape(aresult) = aresult

\* C5 amended: for every string in which each ESC character starts a
\* recognized sequence, one strip leaves no recognized sequence and a second
\* strip changes nothing.
C5_EscapeIdempotentWellFormed ==
    (aop = "escape" /\ EveryEscStartsSequence(atext))
        => (NoSequenceIn(aresult) /\ escape(aresult) = aresult)

\* a string of two sequences and one of a sequence and a visible character
\* have been stripped
C5_Witness ==
    /\ aop = "escape"
    /\ EveryEscStartsSequence(atext)
    /\ \/ Cardinality({i \in 1..Len(atext) : atext[i] = ESC}) = 2 /\ aresult = <<>>
       \/ atext = <<ESC, LBRACKET, 109, 65>> /\ aresult = <<65>>

\* C8 as stated: center puts floor(pad / 2) fill characters before the text
\* and the remaining ceil(pad / 2) after it, whatever the parities.
C8_CenterTrailing ==
    (aop = "center" /\ alength > len(atext))
        => LET pad == alength - len(atext)
           IN  aresult = Rep(afill, pad \div 2) \o atext \o Rep(afill, pad - pad \div 2)

\* C8 amended: center puts floor(pad / 2) fill characters before the text and
\* the rest after it, except that when pad is odd and the width plus the
\* number of invisible characters of the text is odd too, the odd fill
\* character goes before the text.
C8_CenterRemainder ==
    (aop = "center" /\ alength > len(atext))
        => LET pad == alength - len(atext)
               lead == IF pad % 2 = 1 /\ (alength + Invisible(atext)) % 2 = 1
                       THEN pad \div 2 + 1 ELSE pad \div 2
           IN  aresult = Rep(afill, lead) \o atext \o Rep(afill, pad - lead)

\* a text with invisible characters was centered with an odd pad that went
\* to the leading side
C8_Witness ==
    /\ aop = "center"
    /\ Invisible(atext) > 0
    /\ len(atext) > 0
    /\ alength - len(atext) = 3
    /\ aresult = Rep(afill, 2) \o atext \o Rep(afill, 1)

\* C9: for every string and every width w >= its visible width, the left
\* justified string has exactly w visible characters.
C9_LjustVisibleWidth ==
    (aop = "ljust" /\ alength >= len(atext)) => len(aresult) = alength

\* a text with a complete sequence and an unfinished one at its end was padded
C9_Witness ==
    /\ aop = "ljust"
    /\ Invisible(atext) > 0
    /\ Len(atext) >= 2
    /\ atext[Len(atext) - 1] = ESC
    /\ atext[Len(atext)] = LBRACKET
    /\ alength > len(atext) + 1
    /\ len(aresult) = alength

(***************************************************************************)
(* print_table.  A row is a sequence of cells; a row of one cell is a      *)
(* caption ("weekday") row.  stdout is one text, cut into lines at "\n".   *)
(***************************************************************************)
RECURSIVE MaxOf(_)
MaxOf(S) ==
    LET x == CHOOSE y \in S : TRUE
    IN  IF S = {x} THEN x
        ELSE LET m == MaxOf(S \ {x}) IN IF x > m THEN x ELSE m

RECURSIVE Sum(_)
Sum(q) == IF q = <<>> THEN 0 ELSE Head(q) + Sum(Tail(q))

\* the first loop of print_table: the widest visible cell of every column,
\* over the rows that are not caption rows
column_widths(t) ==
    [i \in 1..MaxOf({Len(t[r]) : r \in 1..Len(t)}) |->
        MaxOf({0} \cup {len(t[r][i]) :
                        r \in {q \in 1..Len(t) : Len(t[q]) # 1 /\ i <= Len(t[q])}})]

column_sep == gray(<<SPACE, BAR, SPACE>>)

max_row_width(t) ==
    Sum(column_widths(t)) + len(column_sep) * (Len(column_widths(t)) - 1)

RECURSIVE Cells(_, _, _)
\* the inner loop over the entries of a row that is not a caption row
Cells(row, widths, j) ==
    IF j > Len(row) THEN <<>>
    ELSE ljust(row[j], widths[j], SPACE)
            \o (IF j # Len(row) THEN column_sep ELSE <<SPACE, BAR, NEWLINE>>)
            \o Cells(row, widths, j + 1)

\* what one iteration of the second loop prints for row i (1-based)
row_output(t, i) ==
    LET row == t[i]
        w == max_row_width(t)
    IN  (IF i = 1 THEN <<CORNER_TL, RULE>> ELSE <<BAR, SPACE>>)
        \o (IF Len(row) = 1
            THEN (IF i # 1 THEN Rep(SPACE, w) \o <<SPACE, BAR, NEWLINE, TEE_L, RULE>> ELSE <<>>)
                 \o center(bold(<<LBRACE, SPACE>> \o row[1] \o <<SPACE, RBRACE>>), w, RULE)
                 \o (IF i = 1 THEN <<RULE, CORNER_TR>> ELSE <<RULE, TEE_R>>)
                 \o <<NEWLINE>>
            ELSE Cells(row, column_widths(t), 1))

\* the last print of print_table
bottom_output(t) ==
    <<CORNER_BL>> \o Rep(RULE, max_row_width(t) + 2) \o <<CORNER_BR, NEWLINE>>

RECURSIVE SplitLines(_)
\* the lines of a printed text, each without its "\n"
SplitLines(out) ==
    IF out = <<>> THEN <<>>
    ELSE LET nl == {i \in 1..Len(out) : out[i] = NEWLINE}
         IN  IF nl = {} THEN <<out>>
             ELSE LET k == CHOOSE i \in nl : \A j \in nl : i <= j
                  IN  <<SubSeq(out, 1, k - 1)>> \o SplitLines(SubSeq(out, k + 1, Len(out)))

CellTexts == {<<97>>, <<98, 98>>, bold(<<57, 58, 48, 48>>)}          \* "a", "bb", bold("9:00")

Captions == {<<77>>, <<77, 111, 110, 100, 97, 121>>}                \* "M", "Monday"

Rows ==
    {<<c>> : c \in Captions}
        \cup {<<c, d>> : c \in CellTexts, d \in CellTexts}
        \cup {<< <<97>>, <<98, 98>>, <<97>> >>}

Tables == SeqsUpTo(Rows, MaxRows) \ {<<>>}

TInit ==
    /\ table \in Tables
    /\ ti = 0
    /\ tout = <<>>
    /\ tpc = "rows"

\* one iteration of  for i, row in enumerate(table)
PrintRow ==
    /\ tpc = "rows"
    /\ ti < Len(table)
    /\ ti' = ti + 1
    /\ tout' = tout \o row_output(table, ti + 1)
    /\ UNCHANGED <<table, tpc>>

\* the print after the loop
PrintBottom ==
    /\ tpc = "rows"
    /\ ti = Len(table)
    /\ tout' = tout \o bottom_output(table)
    /\ tpc' = "done"
    /\ UNCHANGED <<table, ti>>

NextTable ==
    \/ PrintRow /\ UNCHANGED <<avars, lvars, pvars>>
    \/ PrintBottom /\ UNCHANGED <<avars, lvars, pvars>>

InitTable == AIdle /\ TInit /\ LIdle /\ PIdle

SpecTable == InitTable /\ [][NextTable]_vars

(***************************************************************************)
(* Properties of print_table.                                              *)
(***************************************************************************)
IsDataRow(row) == Len(row) # 1

IsBorderLine(line) ==
    /\ line # <<>>
    /\ \A i \in 1..Len(line) :
        line[i] \in {RULE, CORNER_TL, CORNER_TR, CORNER_BL, CORNER_BR, TEE_L, TEE_R}

\* C6: a table of DataRows only is printed as a top border line, then one
\* content line per row, then a bottom border line: rows + 2 lines, the
\* first and the last of them border lines.
C6_DataRowsTopBorder ==
    (tpc = "done" /\ \A r \in 1..Len(table) : IsDataRow(table[r]))
        => LET lines == SplitLines(tout)
           IN  /\ Len(lines) = Len(table) + 2
               /\ IsBorderLine(lines[1])
               /\ IsBorderLine(lines[Len(lines)])

\* C7: in a table with a SectionRow and DataRows of one arity, every
\* printed line has the same visible width, for every caption.
C7_LinesOfEqualWidth ==
    (/\ tpc = "done"
     /\ \E r \in 1..Len(table) : ~IsDataRow(table[r])
     /\ \E r \in 1..Len(table) : IsDataRow(table[r])
     /\ \A q, r \in 1..Len(table) :
            (IsDataRow(table[q]) /\ IsDataRow(table[r])) => Len(table[q]) = Len(table[r]))
        => LET lines == SplitLines(tout)
           IN  \A k \in 1..Len(lines) : len(lines[k]) = max_row_width(table) + 4

(***************************************************************************)
(* pick_one.  stdin is a sequence of lines followed by end-of-input; a     *)
(* line is a text without its "\n".  stdout is the sequence of what was    *)
(* printed: "item" for a line of the enumerated list, "prompt" for the     *)
(* prompt of input().                                                      *)
(***************************************************************************)
IsSpace(c) == c \in {SPACE, 9, 10, 11, 12, 13}

IsDigit(c) == c >= 48 /\ c <= 57

RECURSIVE Strip(_)
\* str.strip(): int() ignores the whitespace around the number
Strip(q) ==
    IF q = <<>> THEN q
    ELSE IF IsSpace(Head(q)) THEN Strip(Tail(q))
    ELSE IF IsSpace(q[Len(q)]) THEN Strip(SubSeq(q, 1, Len(q) - 1))
    ELSE q

RECURSIVE Value(_)
\* the number that a sequence of decimal digits denotes
Value(q) == IF q = <<>> THEN 0 ELSE 10 * Value(SubSeq(q, 1, Len(q) - 1)) + (q[Len(q)] - 48)

\* int(val) for a line of ASCII characters without "_": ok is FALSE where
\* Python raises ValueError
int(val) ==
    LET body == Strip(val)
        signed == body # <<>> /\ Head(body) \in {43, 45}
        digits == IF signed THEN Tail(body) ELSE body
    IN  IF digits = <<>> \/ \E i \in 1..Len(digits) : ~IsDigit(digits[i])
        THEN [ok |-> FALSE, n |-> 0]
        ELSE [ok |-> TRUE,
              n |-> IF signed /\ Head(body) = 45 THEN 0 - Value(digits) ELSE Value(digits)]

\* a slip: the 1-based number is used as the index
line_index_one_based(val) ==
    IF val = <<>> THEN [ok |-> TRUE, n |-> 0]
    ELSE [ok |-> int(val).ok, n |-> int(val).n]

\* the try block of the loop: the index the line denotes, ok is FALSE on
\* ValueError
line_index(val) ==
    IF val = <<>> THEN [ok |-> TRUE, n |-> 0]
    ELSE [ok |-> int(val).ok, n |-> int(val).n - 1]

AllChoices == <<"x", "y", "z", "w", "v">>

\* "", " ", "x", "1x", "0", "1", "2", "3", "9", "-1", "+2", " 2 "
InputLines ==
    {<<>>, <<32>>, <<120>>, <<49, 120>>, <<48>>, <<49>>, <<50>>, <<51>>, <<57>>,
     <<45, 49>>, <<43, 50>>, <<32, 50, 32>>}

PInit ==
    /\ \E n \in 0..MaxChoices : choices = SubSeq(AllChoices, 1, n)
    /\ pinput \in SeqsUpTo(InputLines, MaxInputs)
    /\ ppos = 0
    /\ ppc = "start"
    /\ pprinted = <<>>
    /\ pret = ""
    /\ pexit = -1

\* if len(l) == 1: return l[0]
ReturnOnly ==
    /\ ppc = "start"
    /\ Len(choices) = 1
    /\ pret' = choices[1]
    /\ ppc' = "returned"
    /\ UNCHANGED <<choices, pinput, ppos, pprinted, pexit>>

\* the loop that prints the enumerated list
PrintChoices ==
    /\ ppc = "start"
    /\ Len(choices) # 1
    /\ pprinted' = [i \in 1..Len(choices) |-> "item"]
    /\ ppc' = "prompt"
    /\ UNCHANGED <<choices, pinput, ppos, pret, pexit>>

\* one iteration of  while True  in which input() returns a line
ReadLine ==
    /\ ppc = "prompt"
    /\ ppos < Len(pinput)
    /\ ppos' = ppos + 1
    /\ pprinted' = Append(pprinted, "prompt")
    /\ LET index == line_index(pinput[ppos + 1])
       IN  IF index.ok /\ 0 <= index.n /\ index.n < Len(choices)
           THEN pret' = choices[index.n + 1] /\ ppc' = "returned"
           ELSE UNCHANGED <<pret, ppc>>
    /\ UNCHANGED <<choices, pinput, pexit>>

\* the iteration in which input() raises EOFError: break, then sys.exit(0)
ReadEOF ==
    /\ ppc = "prompt"
    /\ ppos = Len(pinput)
    /\ pprinted' = Append(pprinted, "prompt")
    /\ ppc' = "exited"
    /\ pexit' = 0
    /\ UNCHANGED <<choices, pinput, ppos, pret>>

NextPick ==
    \/ ReturnOnly /\ UNCHANGED <<avars, tvars, lvars>>
    \/ PrintChoices /\ UNCHANGED <<avars, tvars, lvars>>
    \/ ReadLine /\ UNCHANGED <<avars, tvars, lvars>>
    \/ ReadEOF /\ UNCHANGED <<avars, tvars, lvars>>

InitPick == AIdle /\ TIdle /\ LIdle /\ PInit

SpecPick == InitPick /\ [][NextPick]_vars

(***************************************************************************)
(* Properties of pick_one.                                                 *)
(***************************************************************************)
\* a line that selects an element: blank, or an integer n with 1 <= n <= len
ValidLine(line) ==
    line = <<>> \/ (int(line).ok /\ 1 <= int(line).n /\ int(line).n <= Len(choices))

Selected(line) == IF line = <<>> THEN choices[1] ELSE choices[int(line).n]

Prompts == Cardinality({i \in 1..Len(pprinted) : pprinted[i] = "prompt"})

\* C10: with at least two choices, pick_one prompts again, printing nothing
\* but the prompt, for every line that is neither blank nor an integer in
\* 1..len(choices); it returns the element that the first valid line selects;
\* and at end-of-input before any valid line it exits with code 0 and
\* returns nothing.
C10_FirstValidLineDecides ==
    Len(choices) >= 2 =>
        /\ \A i \in 1..Len(pprinted) : pprinted[i] \in {"item", "prompt"}
        /\ ppc = "prompt" =>
            /\ \A i \in 1..ppos : ~ValidLine(pinput[i])
            /\ Prompts = ppos
            /\ pret = "" /\ pexit = -1
        /\ ppc = "returned" =>
            /\ ppos >= 1
            /\ \A i \in 1..(ppos - 1) : ~ValidLine(pinput[i])
            /\ ValidLine(pinput[ppos])
            /\ pret = Selected(pinput[ppos])
            /\ Prompts = ppos
            /\ pexit = -1
        /\ ppc = "exited" =>
            /\ \A i \in 1..Len(pinput) : ~ValidLine(pinput[i])
            /\ ppos = Len(pinput)
            /\ pexit = 0
            /\ pret = ""

\* "9" was skipped and "2" then selected the second of three choices
C10_Witness ==
    /\ Len(choices) = 3
    /\ pinput = << <<57>>, <<50>> >>
    /\ ppc = "returned"
    /\ pret = "y"
    /\ Prompts = 2

(***************************************************************************)
(* Strict.  A value is a record of one shape whose field t tells what it   *)
(* is: a parsed YAML node ("none", "int", "str", "map", "list") or an      *)
(* instance of a dataclass ("obj").  The items of a "map" and the fields   *)
(* of an "obj" are sequences of <<name, value>>, in the order of the dict. *)
(***************************************************************************)
Value_(t, i, s, cls, items, elems) ==
    [t |-> t, i |-> i, s |-> s, cls |-> cls, items |-> items, elems |-> elems]

RNone == Value_("none", 0, "", "", <<>>, <<>>)
RInt(n) == Value_("int", n, "", "", <<>>, <<>>)
RStr(s) == Value_("str", 0, s, "", <<>>, <<>>)
RMap(items) == Value_("map", 0, "", "", items, <<>>)
RList(elems) == Value_("list", 0, "", "", <<>>, elems)
RObj(cls, fields) == Value_("obj", 0, "", cls, fields, <<>>)
Malformed == Value_("malformed", 0, "", "", <<>>, <<>>)      \* a document safe_load cannot parse

\* the characters of the strings of the documents, as  for f in "..."  yields them
chars(s) == CASE s = "blue" -> <<"b", "l", "u", "e">> [] OTHER -> <<>>

\* the result of a call: a value, or the exception it raised
Ok(v) == [ok |-> TRUE, val |-> v, exc |-> "", kind |-> "", names |-> <<>>, cls |-> ""]
Raise(exc, kind, names, cls) ==
    [ok |-> FALSE, val |-> RNone, exc |-> exc, kind |-> kind, names |-> names, cls |-> cls]

(***************************************************************************)
(* The dataclasses that are loaded: subclasses of Strict, each field with  *)
(* its annotation and whether it has the default None.                     *)
(***************************************************************************)
TInt == [k |-> "int", of |-> ""]
TStr == [k |-> "str", of |-> ""]
TClass(c) == [k |-> "class", of |-> c]
TListOf(c) == [k |-> "list", of |-> c]                        \* List[c]

Field(name, type, default) == [name |-> name, type |-> type, default |-> default]

\* fields(c), in the order of declaration
fields(c) ==
    CASE c = "Inner" -> << Field("b", TInt, FALSE) >>
      [] c = "Outer" -> << Field("a", TClass("Inner"), FALSE), Field("c", TInt, FALSE) >>
      [] c = "Listing" -> << Field("a", TListOf("Inner"), FALSE) >>
      [] c = "Single" -> << Field("c", TInt, FALSE), Field("b", TStr, TRUE) >>

Classes == {"Inner", "Outer", "Listing", "Single"}

FieldNames(c) == {fields(c)[i].name : i \in 1..Len(fields(c))}

\* fieldtypes[f]
fieldtype(c, f) ==
    LET i == CHOOSE j \in 1..Len(fields(c)) : fields(c)[j].name = f
    IN  fields(c)[i].type

HasKey(items, f) == \E i \in 1..Len(items) : items[i][1] = f

Get(items, f) ==
    LET i == CHOOSE j \in 1..Len(items) : items[j][1] = f
    IN  items[i][2]

RECURSIVE check_type(_, _)
\* check_type forwards to typesentry.Config().is_type, a library outside the
\* program.  A scalar annotation accepts the values of that type and a class
\* its instances.  What the library answers for a list whose elements are
\* not instances of the annotated element class is left open: lelementwise
\* is either answer, fixed for a run.
check_type(instance, type_hint) ==
    CASE type_hint.k = "int" -> instance.t = "int"
      [] type_hint.k = "str" -> instance.t = "str"
      [] type_hint.k = "class" -> instance.t = "obj" /\ instance.cls = type_hint.of
      [] type_hint.k = "list" ->
            /\ instance.t = "list"
            /\ lelementwise =>
                    \A i \in 1..Len(instance.elems) :
                        check_type(instance.elems[i], TClass(type_hint.of))

\* a slip: None is checked like any other value
post_init_checks_none(c, values) ==
    LET bad == {i \in 1..Len(fields(c)) :
                    ~check_type(Get(values, fields(c)[i].name), fields(c)[i].type)}
    IN  IF bad = {} THEN Ok(RObj(c, values))
        ELSE LET i == CHOOSE j \in bad : \A k \in bad : j <= k
             IN  Raise("TypeError", "mismatch", <<fields(c)[i].name>>, c)

\* Strict.__post_init__ on an instance with these field values: the first
\* field, in the order of the annotations, that is not None and not of its type
__post_init__(c, values) ==
    LET bad == {i \in 1..Len(fields(c)) :
                    /\ Get(values, fields(c)[i].name).t # "none"
                    /\ ~check_type(Get(values, fields(c)[i].name), fields(c)[i].type)}
    IN  IF bad = {} THEN Ok(RObj(c, values))
        ELSE LET i == CHOOSE j \in bad : \A k \in bad : j <= k
             IN  Raise("TypeError", "mismatch", <<fields(c)[i].name>>, c)

\* a slip: every field is given the default None
construct_all_default(c, kwargs) ==
    __post_init__(c, [i \in 1..Len(fields(c)) |->
                        <<fields(c)[i].name,
                          IF HasKey(kwargs, fields(c)[i].name)
                          THEN Get(kwargs, fields(c)[i].name) ELSE RNone>>])

\* c(**kwargs): the generated __init__ binds the arguments, a field without
\* a default that is not among them is a TypeError; then __post_init__ runs
construct(c, kwargs) ==
    LET missing == SelectSeq([i \in 1..Len(fields(c)) |-> fields(c)[i].name],
                             LAMBDA f : ~HasKey(kwargs, f) /\ \E i \in 1..Len(fields(c)) :
                                            fields(c)[i].name = f /\ ~fields(c)[i].default)
        values == [i \in 1..Len(fields(c)) |->
                    <<fields(c)[i].name,
                      IF HasKey(kwargs, fields(c)[i].name)
                      THEN Get(kwargs, fields(c)[i].name) ELSE RNone>>]
    IN  IF missing # <<>> THEN Raise("TypeError", "missing", missing, c)
        ELSE __post_init__(c, values)

RECURSIVE _from_dictionary(_, _)
RECURSIVE comprehension(_, _, _, _)

\* a slip: a key that is no field of the class is skipped
comprehension_skips_undeclared(c, items, i, acc) ==
    IF i > Len(items) THEN Ok(RMap(acc))
    ELSE LET f == items[i][1]
         IN  IF f \notin FieldNames(c) THEN comprehension(c, items, i + 1, acc)
             ELSE LET r == _from_dictionary(fieldtype(c, f), items[i][2])
                  IN  IF ~r.ok THEN r
                      ELSE comprehension(c, items, i + 1, Append(acc, <<f, r.val>>))

\* the dict comprehension  {f: cls._from_dictionary(fieldtypes[f], d[f]) for f in d}
\* over a mapping, from its i-th key on; acc is the dict built so far
comprehension(c, items, i, acc) ==
    IF i > Len(items) THEN Ok(RMap(acc))
    ELSE LET f == items[i][1]
         IN  IF f \notin FieldNames(c) THEN Raise("KeyError", "undeclared", <<f>>, c)
             ELSE LET r == _from_dictionary(fieldtype(c, f), items[i][2])
                  IN  IF ~r.ok THEN r
                      ELSE comprehension(c, items, i + 1, Append(acc, <<f, r.val>>))

\* repr of a key that is not a field name, as the KeyError shows it
key_repr(e) ==
    CASE e.t = "str" -> e.s
      [] e.t = "none" -> "None"
      [] e.t = "int" -> (CASE e.i = 0 -> "0" [] e.i = 1 -> "1" [] OTHER -> "int")

\* the same comprehension over a d that is not a mapping:  for f in d  yields
\* the characters of a str and the elements of a list, and raises for the rest
comprehension_other(c, d) ==
    CASE d.t \in {"none", "int"} -> Raise("TypeError", "not_iterable", <<>>, c)
      [] d.t = "str" ->
            IF chars(d.s) = <<>> THEN Ok(RMap(<<>>))
            ELSE IF chars(d.s)[1] \in FieldNames(c)
                 THEN Raise("TypeError", "str_index", <<chars(d.s)[1]>>, c)
                 ELSE Raise("KeyError", "undeclared", <<chars(d.s)[1]>>, c)
      [] d.t = "list" ->
            IF d.elems = <<>> THEN Ok(RMap(<<>>))
            ELSE IF d.elems[1].t \in {"map", "list"}
                 THEN Raise("TypeError", "unhashable", <<>>, c)
            ELSE IF d.elems[1].t = "str" /\ d.elems[1].s \in FieldNames(c)
                 THEN Raise("TypeError", "list_index", <<d.elems[1].s>>, c)
            ELSE Raise("KeyError", "undeclared", <<key_repr(d.elems[1])>>, c)

\* the keyword arguments that _from_dictionary hands to the constructor of c
kwargs_of(c, d) ==
    IF d.t = "map" THEN comprehension(c, d.items, 1, <<>>) ELSE comprehension_other(c, d)

RECURSIVE from_dictionary_elementwise(_, _, _)
\* a change: the elements of a list are built as well
from_dictionary_elementwise(c, elems, i) ==
    IF i > Len(elems) THEN <<>>
    ELSE <<_from_dictionary(TClass(c.of), elems[i]).val>>
            \o from_dictionary_elementwise(c, elems, i + 1)

from_dictionary_recursing_lists(c, d) ==
    IF c.k = "class"
    THEN LET kw == kwargs_of(c.of, d)
         IN  IF ~kw.ok THEN kw ELSE construct(c.of, kw.val.items)
    ELSE IF c.k = "list" /\ d.t = "list"
         THEN Ok(RList(from_dictionary_elementwise(c, d.elems, 1)))
         ELSE Ok(d)

\* Strict._from_dictionary(c, d): c is an annotation, d a parsed node
_from_dictionary(c, d) ==
    IF c.k = "class"
    THEN LET kw == kwargs_of(c.of, d)
         IN  IF ~kw.ok THEN kw ELSE construct(c.of, kw.val.items)
    ELSE Ok(d)

\* Strict.from_dictionary, called on the class cls
from_dictionary(cls, d) == _from_dictionary(TClass(cls), d)

\* bool(d) is False:  safe_load(f) or {}  replaces d by {}
Falsy(d) ==
    \/ d.t = "none"
    \/ d.t = "map" /\ d.items = <<>>
    \/ d.t = "list" /\ d.elems = <<>>
    \/ d.t = "int" /\ d.i = 0
    \/ d.t = "str" /\ d.s = ""

\* Strict._from_file on a file whose content parses to doc: the instance, or
\* exit_with_error, which prints one line and ends the process with code 1
_from_file(cls, doc) ==
    LET r == IF doc.t = "malformed" THEN Raise("YAMLError", "parse", <<>>, "")
             ELSE from_dictionary(cls, IF Falsy(doc) THEN RMap(<<>>) ELSE doc)
    IN  [ok |-> r.ok, val |-> r.val, exc |-> r.exc, kind |-> r.kind, names |-> r.names,
         cls |-> r.cls,
         message |-> IF r.ok THEN "" ELSE IF r.exc = "KeyError" THEN "Invalid key" ELSE "str(e)",
         exit |-> IF r.ok THEN -1 ELSE 1]

(***************************************************************************)
(* The documents.                                                          *)
(***************************************************************************)
Scalars == {RInt(1), RStr("blue"), RNone}

InnerMaps ==
    {RMap(<<>>), RMap(<< <<"b", RInt(1)>> >>), RMap(<< <<"b", RStr("blue")>> >>),
     RMap(<< <<"c", RInt(1)>> >>)}

ListElems == {RMap(<< <<"b", RInt(1)>> >>), RInt(1)}

Lists == {RList(q) : q \in SeqsUpTo(ListElems, MaxList)}

\* the values of a key: a sequence is given only to the key a, which the
\* classes annotate with a record or a list of records
FieldValues(k) ==
    IF k = "a" THEN Scalars \cup InnerMaps \cup Lists ELSE Scalars \cup InnerMaps

Keys == {"a", "b", "c"}

\* the sequences of distinct keys
KeyOrders == {q \in SeqsUpTo(Keys, Cardinality(Keys)) : \A i, j \in 1..Len(q) : i # j => q[i] # q[j]}

RECURSIVE MapsOver(_)
\* the item sequences with the keys q, in this order
MapsOver(q) ==
    IF q = <<>> THEN {<<>>}
    ELSE {<< <<Head(q), v>> >> \o rest : v \in FieldValues(Head(q)), rest \in MapsOver(Tail(q))}

Documents ==
    {RMap(items) : items \in UNION {MapsOver(q) : q \in KeyOrders}} \cup {RNone, Malformed}

LInit ==
    /\ lcls \in Classes
    /\ ldoc \in Documents
    /\ lpc = "start"
    /\ lkwargs = <<>>
    /\ loutcome = <<>>
    /\ lelementwise \in BOOLEAN

\* cls._from_file(path)
Load ==
    /\ lpc = "start"
    /\ lpc' = "done"
    /\ loutcome' = _from_file(lcls, ldoc)
    /\ lkwargs' = IF ldoc.t = "map" /\ kwargs_of(lcls, ldoc).ok
                  THEN kwargs_of(lcls, ldoc).val.items ELSE <<>>
    /\ UNCHANGED <<lcls, ldoc, lelementwise>>

NextLoad ==
    \/ Load /\ UNCHANGED <<avars, tvars, pvars>>

InitLoad == AIdle /\ TIdle /\ LInit /\ PIdle

SpecLoad == InitLoad /\ [][NextLoad]_vars

(***************************************************************************)
(* Properties of the loader.                                               *)
(***************************************************************************)
Loaded == lpc = "done" /\ ldoc.t = "map"

DocKeys == {ldoc.items[i][1] : i \in 1..Len(ldoc.items)}

DeclaredItems == SelectSeq(ldoc.items, LAMBDA p : p[1] \in FieldNames(lcls))

\* the required fields of the class that the document does not supply
MissingRequired ==
    SelectSeq([i \in 1..Len(fields(lcls)) |-> fields(lcls)[i].name],
              LAMBDA f : f \notin DocKeys /\ \E i \in 1..Len(fields(lcls)) :
                            fields(lcls)[i].name = f /\ ~fields(lcls)[i].default)

\* the i-th item of the document can be given to the constructor
ItemBuilds(i) ==
    /\ ldoc.items[i][1] \in FieldNames(lcls)
    /\ _from_dictionary(fieldtype(lcls, ldoc.items[i][1]), ldoc.items[i][2]).ok

\* the first item that cannot, 0 if there is none
FirstBadItem ==
    LET bad == {i \in 1..Len(ldoc.items) : ~ItemBuilds(i)}
    IN  IF bad = {} THEN 0 ELSE CHOOSE i \in bad : \A j \in bad : i <= j

\* the document supplies every declared field with a value of its type, and
\* a key that is not declared besides
AllFieldsAndExtraKey ==
    /\ Loaded
    /\ FieldNames(lcls) \subseteq DocKeys
    /\ DocKeys \ FieldNames(lcls) # {}
    /\ from_dictionary(lcls, RMap(DeclaredItems)).ok

\* C1 as stated: a key that is not a declared field is ignored, load returns
\* the record of the mapping without the undeclared keys and does not exit.
C1_ExtraKeysIgnored ==
    AllFieldsAndExtraKey =>
        /\ loutcome.ok
        /\ loutcome.exit = -1
        /\ loutcome.val = from_dictionary(lcls, RMap(DeclaredItems)).val

\* C1 amended: a mapping that supplies every declared field with a value of
\* its type and a key that is not declared does not load: the error reported
\* is "Invalid key" with the first undeclared key of the mapping, the process
\* exits with code 1 and no record is returned.
C1_ExtraKeyRejected ==
    AllFieldsAndExtraKey =>
        /\ ~loutcome.ok
        /\ loutcome.exc = "KeyError"
        /\ loutcome.message = "Invalid key"
        /\ loutcome.names = <<ldoc.items[FirstBadItem][1]>>
        /\ loutcome.names[1] \notin FieldNames(lcls)
        /\ loutcome.exit = 1

\* {"a": {"b": 1}, "c": 1, "b": "blue"} was loaded as an Outer
C1_Witness ==
    /\ lpc = "done"
    /\ lcls = "Outer"
    /\ ldoc = RMap(<< <<"a", RMap(<< <<"b", RInt(1)>> >>)>>, <<"c", RInt(1)>>,
                     <<"b", RStr("blue")>> >>)
    /\ loutcome.exc = "KeyError"
    /\ loutcome.names = <<"b">>

NullScalarFields ==
    {fields(lcls)[i].name : i \in {j \in 1..Len(fields(lcls)) :
        /\ ~fields(lcls)[j].default
        /\ fields(lcls)[j].type.k \in {"int", "str"}
        /\ HasKey(ldoc.items, fields(lcls)[j].name)
        /\ Get(ldoc.items, fields(lcls)[j].name) = RNone}}

\* the document with a value of the annotated type in place of these nulls
NullsFilled ==
    RMap([i \in 1..Len(ldoc.items) |->
            IF ldoc.items[i][1] \in NullScalarFields
            THEN <<ldoc.items[i][1],
                   IF fieldtype(lcls, ldoc.items[i][1]).k = "int" THEN RInt(1) ELSE RStr("blue")>>
            ELSE ldoc.items[i]])

\* C3 as stated: null for a field whose type is a non-optional scalar makes
\* validation fail with a type mismatch naming the field, and no record is
\* constructed.
C3_NullRejected ==
    Loaded =>
        \A f \in NullScalarFields :
            /\ ~loutcome.ok
            /\ loutcome.kind = "mismatch"
            /\ loutcome.names = <<f>>

\* C3 amended: null is accepted for every scalar field, declared optional or
\* not: it never makes validation fail with a type mismatch naming the field,
\* and when the document is valid with a value of the declared type in place
\* of the null, the record is constructed with the field set to None.
C3_NullAccepted ==
    Loaded =>
        \A f \in NullScalarFields :
            /\ ~(loutcome.kind = "mismatch" /\ loutcome.cls = lcls /\ loutcome.names = <<f>>)
            /\ from_dictionary(lcls, NullsFilled).ok =>
                /\ loutcome.ok
                /\ loutcome.exit = -1
                /\ loutcome.val.t = "obj"
                /\ Get(loutcome.val.items, f) = RNone

\* {"a": {"b": 1}, "c": null} was loaded as an Outer, whose c is an int
C3_Witness ==
    /\ lpc = "done"
    /\ lcls = "Outer"
    /\ ldoc = RMap(<< <<"a", RMap(<< <<"b", RInt(1)>> >>)>>, <<"c", RNone>> >>)
    /\ NullScalarFields = {"c"}
    /\ loutcome.ok
    /\ Get(loutcome.val.items, "c") = RNone

\* the fields annotated as a list of records to which the document gives a
\* sequence, once the keyword arguments of the constructor are built
SequenceFields ==
    {fields(lcls)[i].name : i \in {j \in 1..Len(fields(lcls)) :
        /\ fields(lcls)[j].type.k = "list"
        /\ HasKey(ldoc.items, fields(lcls)[j].name)
        /\ Get(ldoc.items, fields(lcls)[j].name).t = "list"
        /\ HasKey(lkwargs, fields(lcls)[j].name)}}

\* C4 as stated: the value built for a field declared as a sequence of
\* records has the length and order of the raw sequence, its i-th element
\* the record built from the i-th raw mapping, not the raw mapping.
C4_SequenceElementsBuilt ==
    Loaded =>
        \A f \in SequenceFields :
            LET raw == Get(ldoc.items, f).elems
                built == Get(lkwargs, f).elems
            IN  /\ Len(built) = Len(raw)
                /\ \A i \in 1..Len(raw) :
                        raw[i].t = "map" =>
                            /\ built[i].t = "obj"
                            /\ built[i] = from_dictionary(fieldtype(lcls, f).of, raw[i]).val

\* C4 amended: the builder does not recurse into a field declared as a
\* sequence of records: the value it hands to the constructor of the record
\* is the raw sequence itself, of the same length and order, its i-th
\* element the i-th raw mapping and not a record built from it.
C4_SequencePassedThrough ==
    Loaded =>
        \A f \in SequenceFields :
            LET raw == Get(ldoc.items, f)
                built == Get(lkwargs, f)
            IN  /\ built = raw
                /\ Len(built.elems) = Len(raw.elems)
                /\ \A i \in 1..Len(raw.elems) :
                        /\ built.elems[i] = raw.elems[i]
                        /\ built.elems[i].t # "obj"

\* {"a": [{"b": 1}, 1]} was loaded as a Listing: the constructor was handed
\* the sequence with the raw mapping first
C4_Witness ==
    /\ lpc = "done"
    /\ lcls = "Listing"
    /\ ldoc = RMap(<< <<"a", RList(<<RMap(<< <<"b", RInt(1)>> >>), RInt(1)>>)>> >>)
    /\ SequenceFields = {"a"}
    /\ Get(lkwargs, "a").elems[1] = RMap(<< <<"b", RInt(1)>> >>)
    /\ Get(lkwargs, "a").elems[2] = RInt(1)

====
